---- MODULE Spec2Model ----
(***************************************************************************)
(* The retrieval-query pipeline of the Streamlit front-end: the session    *)
(* state (st.session_state), the HTTP client with its simulated-data       *)
(* fallback (utils/api_client.py), login/logout (utils/auth.py) and the    *)
(* RAG explorer page with its conversation store (pages/rag_explorer.py).  *)
(*                                                                         *)
(* Conventions.  A Python dict is a function whose DOMAIN is the set of    *)
(* keys present; JSON null / Python None is the record JsonNull.  A text   *)
(* is a sequence of fragments: a user's query is a sequence of one-char    *)
(* strings, fixed program texts are kept as whole fragments.  Fractions    *)
(* (confidence, scores) are in hundredths, processing time in hundredths   *)
(* of a second.                                                            *)
(***************************************************************************)
EXTENDS Integers, Sequences, FiniteSets, TLC

\* ------------------------------------------------------------------ bounds
\* Turn identifiers (uuid4 draws) the process hands out before queries stop.
MaxTurns == 2
\* Turns appended when store_conversation_message is applied on its own.
MaxStored == 7
\* Clock ticks the model lets pass.
MaxTime == 2
\* Clock ticks per second: datetime.now() is finer than the %S of strftime.
TicksPerSecond == 2

\* ------------------------------------------------------------ dict helpers
EmptyDict == [k \in {} |-> 0]
JsonNull == [null |-> TRUE]
IsDict(v) == v # JsonNull
Get(d, k, default) == IF k \in DOMAIN d THEN d[k] ELSE default
Put(d, k, v) == [x \in (DOMAIN d) \cup {k} |-> IF x = k THEN v ELSE d[x]]
\* Python truthiness of d.get(k) for a key holding a bool.
Truthy(d, k) == k \in DOMAIN d /\ d[k] = TRUE

Min(S) == CHOOSE x \in S : \A y \in S : x <= y

\* ------------------------------------------------------------ text helpers
Whitespace == {" ", "\t", "\n"}
UpperAlpha == <<"A","B","C","D","E","F","G","H","I","J","K","L","M",
                "N","O","P","Q","R","S","T","U","V","W","X","Y","Z">>
LowerAlpha == <<"a","b","c","d","e","f","g","h","i","j","k","l","m",
                "n","o","p","q","r","s","t","u","v","w","x","y","z">>
LowerChar(c) ==
    IF \E i \in DOMAIN UpperAlpha : UpperAlpha[i] = c
    THEN LowerAlpha[CHOOSE i \in DOMAIN UpperAlpha : UpperAlpha[i] = c]
    ELSE c
\* Mutant of Lower: the text is compared as typed.
LowerUnchanged(s) == s
\* str.lower()
Lower(s) == [i \in DOMAIN s |-> LowerChar(s[i])]
\* sub in s
Contains(sub, s) ==
    \E i \in 0..(Len(s) - Len(sub)) :
        \A j \in 1..Len(sub) : s[i + j] = sub[j]
RECURSIVE LStrip(_)
LStrip(s) == IF s # <<>> /\ Head(s) \in Whitespace THEN LStrip(Tail(s)) ELSE s
RECURSIVE RStrip(_)
RStrip(s) ==
    IF s # <<>> /\ s[Len(s)] \in Whitespace
    THEN RStrip(SubSeq(s, 1, Len(s) - 1))
    ELSE s
\* str.strip()
Strip(s) == RStrip(LStrip(s))

\* ------------------------------------------------------------------ config
API_TIMEOUT == 30
\* Config.API_BASE_URL: os.getenv("API_BASE_URL", "http://localhost:3001").  A
\* URL is its scheme, if it has one, followed by the rest.
DefaultBaseUrl == <<"http://", "localhost:3001">>
ApiBaseUrl(env) == Get(env, "API_BASE_URL", DefaultBaseUrl)
DEMO_CREDENTIALS ==
    [admin   |-> [email |-> "admin@creditdecision.com", password |-> "admin123",
                  name |-> <<"Admin", "User">>, role |-> "ADMIN"],
     analyst |-> [email |-> "analyst@creditdecision.com", password |-> "analyst123",
                  name |-> <<"Credit", "Analyst">>, role |-> "CREDIT_ANALYST"]]

\* ------------------------------------------------------- inputs (samples)
\* Credentials submitted in the login form: the two demo accounts, a demo
\* account with a wrong password, and an account config.py does not know.
Credentials ==
    {<<"admin@creditdecision.com", "admin123">>,
     <<"analyst@creditdecision.com", "analyst123">>,
     <<"analyst@creditdecision.com", "secret99">>,
     <<"eve@bank.com", "secret99">>}
\* Permission lists the real backend may grant.
BackendPermissions == {{"ai:monitor"}, {"applications:view"}}

QCredit == <<"C","r","e","d","i","t"," ","S","c","o","r","e","?">>
QLoan == <<"l","o","a","n">>
QBlank == <<" ","\t">>
Queries == {QCredit, QLoan, QBlank, <<>>}
\* Options of the "Knowledge Base" selectbox the model draws from.
Collections == {"credit_policies", "all_documents"}

VARIABLES
    environ,        \* os.environ when config.py was imported
    session_state,  \* st.session_state: key -> value
    now,            \* the wall clock, in ticks
    uuid_count,     \* uuid4 values drawn so far
    op,             \* the handler that ran last, with its inputs
    net,            \* the HTTP exchanges of that handler: request and reply
    ui              \* what that handler rendered, in order

vars == <<environ, session_state, now, uuid_count, op, net, ui>>

\* ------------------------------------------------------------- UI elements
Info(text) == [w |-> "info", text |-> text]
Error(text) == [w |-> "error", text |-> text]
Warning(text) == [w |-> "warning", text |-> text]
Subheader(text) == [w |-> "subheader", text |-> text]

\* ------------------------------------------------------------- HTTP replies
\* What self.session.request(...) does: raise a RequestException (connection
\* failure, timeout) or return a response with a status, a content type and a
\* body.  A JSON body is given by the value response.json() parses it to, or
\* is not parseable at all.
TransportErrors ==
    {[kind |-> "ConnectionError"], [kind |-> "Timeout", after |-> API_TIMEOUT]}
JsonReply(status_code, body) ==
    [kind |-> "response", status_code |-> status_code,
     content_type |-> <<"application/json", "; charset=utf-8">>,
     parses |-> TRUE, json |-> body]
JSONDecodeErrorBases == {"RequestException", "ValueError"}
InvalidJsonReplies ==
    {[kind |-> "response", status_code |-> 200,
      content_type |-> <<"application/json">>, parses |-> FALSE, raises |-> b] :
        b \in JSONDecodeErrorBases}
TextReplies ==
    {[kind |-> "response", status_code |-> 502, content_type |-> <<"text/html">>,
      text |-> <<"<html>Bad Gateway</html>">>]}
\* self.session.request(url = base_url + endpoint): requests raises
\* MissingSchema, a RequestException, for a URL without a scheme; otherwise
\* the outcome is one of replies.
HasScheme(url) == url # <<>> /\ Head(url) \in {"http://", "https://"}
SessionRequest(base_url, endpoint, replies) ==
    IF HasScheme(base_url)
    THEN replies
    ELSE {[kind |-> "MissingSchema", url |-> base_url \o <<endpoint>>]}
\* Which exception response.json() raises on an unparseable body depends on
\* the installed requests: its JSONDecodeError is a RequestException since
\* 2.27, a plain ValueError before (raises).

\* ------------------------------------------------------------- api_client
\* APIClient._get_demo_response.  The branch of "/api/credit/applications"
\* (twenty random applications) is left out: no handler of the model calls it.
GetDemoResponse(method, endpoint, kwargs, t) ==
    CASE endpoint = "/api/auth/login" ->
            [success |-> TRUE,
             data |-> [user |-> [id |-> "demo-user-123",
                                 email |-> Get(Get(kwargs, "json", EmptyDict), "email",
                                               "demo@example.com"),
                                 firstName |-> "Demo",
                                 lastName |-> "User",
                                 role |-> "ADMIN",
                                 permissions |-> {"*"}],
                       token |-> "demo-jwt-token-123",
                       refreshToken |-> "demo-refresh-token-123",
                       expiresAt |-> [now |-> t, hours |-> 24]]]
      [] endpoint = "/api/auth/me" ->
            [success |-> TRUE,
             data |-> [id |-> "demo-user-123",
                       email |-> "demo@example.com",
                       firstName |-> "Demo",
                       lastName |-> "User",
                       role |-> "ADMIN",
                       permissions |-> {"*"}]]
      [] endpoint = "/health" ->
            [success |-> TRUE,
             data |-> [status |-> "healthy",
                       timestamp |-> t,
                       services |-> [database |-> "healthy", redis |-> "healthy",
                                     ai |-> "demo"]]]
      [] OTHER ->
            [success |-> TRUE,
             data |-> [message |-> <<"Demo response for ", endpoint>>,
                       timestamp |-> t,
                       demo_mode |-> TRUE]]

StartsWith(text, prefix) == text # <<>> /\ Head(text) = prefix

\* Mutant of MakeRequest: a timeout is not caught.
MakeRequestTimeoutUncaught(method, endpoint, kwargs, reply, t) ==
    LET demo == [raised |-> "",
                 value |-> GetDemoResponse(method, endpoint, kwargs, t),
                 ui |-> <<Info(<<"Demo Mode: API not available, using simulated data">>)>>]
    IN  IF reply.kind = "Timeout"
        THEN [raised |-> "Timeout", value |-> JsonNull, ui |-> <<>>]
        ELSE IF reply.kind # "response"
        THEN demo
        ELSE IF StartsWith(reply.content_type, "application/json")
             THEN IF reply.parses
                  THEN [raised |-> "", value |-> reply.json, ui |-> <<>>]
                  ELSE IF reply.raises = "RequestException"
                       THEN demo
                       ELSE [raised |-> "JSONDecodeError", value |-> JsonNull, ui |-> <<>>]
             ELSE [raised |-> "",
                   value |-> [data |-> reply.text, status_code |-> reply.status_code],
                   ui |-> <<>>]

\* APIClient._make_request: [raised, value, ui].  raised is "" when the call
\* returns value, else the exception that leaves the call.
MakeRequest(method, endpoint, kwargs, reply, t) ==
    LET demo == [raised |-> "",
                 value |-> GetDemoResponse(method, endpoint, kwargs, t),
                 ui |-> <<Info(<<"Demo Mode: API not available, using simulated data">>)>>]
    IN  IF reply.kind # "response"
        THEN demo
        ELSE IF StartsWith(reply.content_type, "application/json")
             THEN IF reply.parses
                  THEN [raised |-> "", value |-> reply.json, ui |-> <<>>]
                  ELSE IF reply.raises = "RequestException"
                       THEN demo
                       ELSE [raised |-> "JSONDecodeError", value |-> JsonNull, ui |-> <<>>]
             ELSE [raised |-> "",
                   value |-> [data |-> reply.text, status_code |-> reply.status_code],
                   ui |-> <<>>]

\* The request as sent, kept with its reply in net.
Exchange(method, endpoint, kwargs, reply) ==
    [method |-> method, endpoint |-> endpoint, kwargs |-> kwargs, reply |-> reply]

\* APIClient.login
LoginRequest(email, password) ==
    [method |-> "POST", endpoint |-> "/api/auth/login",
     kwargs |-> [json |-> [email |-> email, password |-> password]]]
\* APIClient.rag_query
RagQueryRequest(query, collection) ==
    [method |-> "POST", endpoint |-> "/api/ai/rag/query",
     kwargs |-> [json |-> [query |-> query, collection |-> collection]]]
\* APIClient.rag_conversation
RagConversationRequest(query, conversation_id, collection) ==
    [method |-> "POST", endpoint |-> "/api/ai/rag/conversation",
     kwargs |-> [json |-> [query |-> query, conversationId |-> conversation_id,
                           collection |-> collection]]]

\* -------------------------------------------------------------------- auth
\* Mutant of CheckAuthentication: the token alone counts.
CheckAuthenticationTokenOnly(ss) == "api_token" \in DOMAIN ss

\* check_authentication
CheckAuthentication(ss) == "api_token" \in DOMAIN ss /\ "user_data" \in DOMAIN ss

\* Mutant of HasPermission: the wildcard "*" grants nothing.
HasPermissionExact(ss, permission) ==
    IF "user_data" \notin DOMAIN ss
    THEN FALSE
    ELSE permission \in Get(ss.user_data, "permissions", {})

\* get_current_user / has_permission
HasPermission(ss, permission) ==
    IF "user_data" \notin DOMAIN ss
    THEN FALSE
    ELSE LET permissions == Get(ss.user_data, "permissions", {})
         IN  "*" \in permissions \/ permission \in permissions

\* The keys of config.DEMO_CREDENTIALS, in the order of the dict.
DemoOrder == <<"admin", "analyst">>
DemoMatches(email, password) ==
    {i \in DOMAIN DemoOrder :
        /\ DEMO_CREDENTIALS[DemoOrder[i]].email = email
        /\ DEMO_CREDENTIALS[DemoOrder[i]].password = password}

\* Bodies the login endpoint of the backend answers with.
LoginAccepted ==
    {[success |-> TRUE,
      data |-> [token |-> "jwt-token",
                user |-> [id |-> "user-1", role |-> "CREDIT_ANALYST", permissions |-> p],
                expiresAt |-> "2025-01-01T00:00:00"]] : p \in BackendPermissions}
LoginReplies ==
    TransportErrors
    \cup {JsonReply(200, b) : b \in LoginAccepted}
    \cup {JsonReply(200, [success |-> TRUE, data |-> [token |-> "jwt-token"]]),
          JsonReply(401, [success |-> FALSE, error |-> <<"Invalid credentials">>]),
          JsonReply(200, JsonNull)}
    \cup InvalidJsonReplies \cup TextReplies

\* login_user: [ss, ui, result]
LoginUser(ss, email, password, reply, t) ==
    LET req == LoginRequest(email, password)
        r == MakeRequest(req.method, req.endpoint, req.kwargs, reply, t)
        response == r.value
        Except(s, e) ==
            [ss |-> s, ui |-> r.ui \o <<Error(<<"Login error: ", e>>)>>, result |-> FALSE]
        matches == DemoMatches(email, password)
    IN  IF r.raised # "" THEN Except(ss, r.raised)
        ELSE IF ~IsDict(response) THEN Except(ss, "AttributeError")
        ELSE IF Truthy(response, "success") /\ "data" \in DOMAIN response
        THEN LET data == response.data
             IN  IF "token" \notin DOMAIN data THEN Except(ss, "KeyError")
                 ELSE LET s1 == Put(ss, "api_token", data.token)
                      IN  IF "user" \notin DOMAIN data THEN Except(s1, "KeyError")
                          ELSE [ss |-> Put(Put(s1, "user_data", data.user),
                                           "login_time", Get(data, "expiresAt", JsonNull)),
                                ui |-> r.ui, result |-> TRUE]
        ELSE IF matches # {}
        THEN LET user_key == DemoOrder[Min(matches)]
                 demo_user == DEMO_CREDENTIALS[user_key]
                 user_data ==
                     [id |-> <<"demo_", user_key>>,
                      email |-> demo_user.email,
                      firstName |-> Head(demo_user.name),
                      lastName |-> demo_user.name[Len(demo_user.name)],
                      role |-> demo_user.role,
                      permissions |-> IF demo_user.role = "ADMIN"
                                      THEN {"*"}
                                      ELSE {"applications:view", "decisions:make"}]
             IN  [ss |-> Put(Put(Put(ss, "api_token", <<"demo_token_", user_key>>),
                                 "user_data", user_data),
                             "demo_mode", TRUE),
                  ui |-> r.ui, result |-> TRUE]
        ELSE [ss |-> ss, ui |-> r.ui, result |-> FALSE]

\* Mutant of LogoutUser: only the credentials are deleted.
LogoutUserCredentialsOnly(ss) ==
    [k \in DOMAIN ss \ {"api_token", "user_data", "login_time"} |-> ss[k]]

\* logout_user: every key of the session state is deleted.
LogoutUser(ss) == EmptyDict

\* --------------------------------------------------- mock response synthesis
\* The samples the model draws for random.uniform(a, b) and random.randint(a, b).
RandomUniform(a, b) == {a, b}
\* Mutant of RandomInt: the ends are off by one.
RandomIntOffByOne(a, b) == {a - 1, b + 1}
RandomInt(a, b) == {a, b}
Draw(S, which) == IF which = "lowest" THEN Min(S) ELSE CHOOSE x \in S : \A y \in S : y <= x
\* The draws of one call, taken together at the low or at the high end.
RandomDraws ==
    {[confidence |-> Draw(RandomUniform(70, 95), w),
      totalTokens |-> Draw(RandomInt(150, 500), w),
      processingTime |-> Draw(RandomUniform(120, 350), w),
      page |-> Draw(RandomInt(1, 20), w)] : w \in {"lowest", "highest"}}

KwCreditScore == <<"c","r","e","d","i","t"," ","s","c","o","r","e">>
KwRisk == <<"r","i","s","k">>

\* generate_mock_rag_response
GenerateMockRagResponse(query, collection, rnd) ==
    LET credit ==
            [answer |-> <<"Based on our credit policies, the minimum credit score requirements are: Personal Loans: ",
                          "650", " minimum credit score; Business Loans: ",
                          "700", " minimum credit score; Auto Loans: ",
                          "620", " minimum credit score; Home Loans: ",
                          "680", " minimum credit score. These requirements may be adjusted based on other factors.">>,
             sources |-> <<[title |-> "Personal Loan Credit Policy",
                            content |-> <<"Minimum credit score of 650 is required for personal loans up to $50,000.">>,
                            score |-> 95,
                            metadata |-> [document |-> "credit_policy_v2.1.pdf", page |-> 3]],
                           [title |-> "Credit Scoring Guidelines",
                            content |-> <<"Credit score requirements vary by loan type and risk assessment.">>,
                            score |-> 87,
                            metadata |-> [document |-> "scoring_guidelines.pdf", page |-> 1]]>>]
        risk ==
            [answer |-> <<"Our risk assessment framework evaluates multiple factors: Credit History, Financial Stability, Collateral, External Factors. Risk scores range from 0-100.">>,
             sources |-> <<[title |-> "Risk Assessment Framework",
                            content |-> <<"Comprehensive risk evaluation considers credit, financial, and external factors.">>,
                            score |-> 92,
                            metadata |-> [document |-> "risk_framework_v3.0.pdf", page |-> 5]]>>]
        generic ==
            [answer |-> <<"I found information related to your query about \"">> \o query
                        \o <<"\" in our ", collection,
                             " collection. This is a demo response showing how the RAG system would provide contextual answers.">>,
             sources |-> <<[title |-> "General Policy Document",
                            content |-> <<"Information related to ">> \o query
                                        \o <<" can be found in our policy documentation.">>,
                            score |-> 75,
                            metadata |-> [document |-> "general_policies.pdf",
                                          page |-> rnd.page]]>>]
        chosen == IF Contains(KwCreditScore, Lower(query)) THEN credit
                  ELSE IF Contains(KwRisk, Lower(query)) THEN risk
                  ELSE generic
    IN  [answer |-> chosen.answer,
         sources |-> chosen.sources,
         confidence |-> rnd.confidence,
         usage |-> [totalTokens |-> rnd.totalTokens,
                    processingTime |-> rnd.processingTime]]

\* ------------------------------------------------------------ rag_explorer
\* st.session_state.get("current_conversation") is truthy: identifiers are
\* non-empty strings, so it is when the key is present.
HasCurrent(ss) == "current_conversation" \in DOMAIN ss

\* strftime('%Y%m%d_%H%M%S') of a clock value: the whole seconds.
Strftime(t) == t \div TicksPerSecond
\* f"conv_{...}"
ConversationId(t) == <<"conv_", Strftime(t)>>

\* display_rag_results: [raised, ui]
DisplayRagResults(data) ==
    LET head == <<Subheader(<<"Answer">>)>>
    IN  IF ~IsDict(data)
        THEN [raised |-> "AttributeError", ui |-> head]
        ELSE LET answer == Get(data, "answer", <<"No answer available">>)
                 confidence == Get(data, "confidence", 0)
                 color == IF confidence > 80 THEN "green"
                          ELSE IF confidence > 60 THEN "orange" ELSE "red"
                 sources == Get(data, "sources", <<>>)
                 shown == SubSeq(sources, 1, IF Len(sources) < 5 THEN Len(sources) ELSE 5)
                 usage == Get(data, "usage", EmptyDict)
             IN  [raised |-> "",
                  ui |-> head
                         \o <<[w |-> "answer", text |-> answer],
                              [w |-> "confidence", color |-> color, value |-> confidence]>>
                         \o (IF sources # <<>>
                             THEN <<Subheader(<<"Sources">>)>>
                                  \o [i \in DOMAIN shown |->
                                        [w |-> "source",
                                         title |-> Get(shown[i], "title", "Unknown Document"),
                                         score |-> Get(shown[i], "score", 0),
                                         content |-> Get(shown[i], "content",
                                                         <<"No content available">>),
                                         metadata |-> Get(shown[i], "metadata", EmptyDict)]]
                             ELSE <<>>)
                         \o (IF DOMAIN usage # {}
                             THEN <<[w |-> "metric", label |-> "Tokens Used",
                                     value |-> Get(usage, "totalTokens", 0)],
                                    [w |-> "metric", label |-> "Processing Time",
                                     value |-> Get(usage, "processingTime", 0)],
                                    [w |-> "metric", label |-> "Sources Found",
                                     value |-> Len(sources)]>>
                             ELSE <<>>)]

\* Whether store_conversation_message draws a uuid4 (it appends a message).
Stores(ss) == IF HasCurrent(ss) THEN 1 ELSE 0

\* Mutant of StoreConversationMessage: an unknown conversation id is skipped.
StoreConversationMessageKnownOnly(ss, query, response, t, uid) ==
    IF ~HasCurrent(ss) \/ ss.current_conversation \notin DOMAIN ss.conversations
    THEN ss
    ELSE LET conversation_id == ss.current_conversation
             message == [timestamp |-> t, query |-> query, response |-> response,
                         id |-> uid]
         IN  Put(ss, "conversations",
                 Put(ss.conversations, conversation_id,
                     Put(ss.conversations[conversation_id], "messages",
                         Append(ss.conversations[conversation_id].messages, message))))

\* Mutant of StoreConversationMessage: without a current conversation the
\* message goes to a default one.
StoreConversationMessageDefaulting(ss, query, response, t, uid) ==
    LET conversation_id == Get(ss, "current_conversation", <<"conv_", "default">>)
        known == ss.conversations
        convs == IF conversation_id \in DOMAIN known
                 THEN known
                 ELSE Put(known, conversation_id, [messages |-> <<>>])
        message == [timestamp |-> t, query |-> query, response |-> response,
                    id |-> uid]
    IN  Put(ss, "conversations",
            Put(convs, conversation_id,
                Put(convs[conversation_id], "messages",
                    Append(convs[conversation_id].messages, message))))

\* Mutant of StoreConversationMessage: the message replaces the list.
StoreConversationMessageReplacing(ss, query, response, t, uid) ==
    IF ~HasCurrent(ss)
    THEN ss
    ELSE LET conversation_id == ss.current_conversation
             message == [timestamp |-> t, query |-> query, response |-> response,
                         id |-> uid]
         IN  Put(ss, "conversations",
                 Put(ss.conversations, conversation_id, [messages |-> <<message>>]))

\* store_conversation_message
StoreConversationMessage(ss, query, response, t, uid) ==
    IF ~HasCurrent(ss)
    THEN ss
    ELSE LET conversation_id == ss.current_conversation
             known == ss.conversations
             convs == IF conversation_id \in DOMAIN known
                      THEN known
                      ELSE Put(known, conversation_id, [messages |-> <<>>])
             message == [timestamp |-> t, query |-> query, response |-> response,
                         id |-> uid]
         IN  Put(ss, "conversations",
                 Put(convs, conversation_id,
                     Put(convs[conversation_id], "messages",
                         Append(convs[conversation_id].messages, message))))

\* Bodies the two RAG endpoints of the backend answer with.
BackendAnswer ==
    [answer |-> <<"Personal loans need a score of 650.">>,
     confidence |-> 91,
     sources |-> <<[title |-> "Credit Policy", content |-> <<"Score of 650 required.">>,
                    score |-> 88, metadata |-> [document |-> "policy.pdf"]]>>,
     usage |-> [totalTokens |-> 210, processingTime |-> 140]]
RagReplies ==
    TransportErrors
    \cup {JsonReply(200, [success |-> TRUE, data |-> BackendAnswer]),
          JsonReply(500, [success |-> TRUE, data |-> BackendAnswer]),
          JsonReply(200, [success |-> TRUE, data |-> JsonNull]),
          JsonReply(200, [success |-> TRUE]),
          JsonReply(500, [success |-> FALSE, error |-> <<"Vector store unavailable">>]),
          JsonReply(200, [success |-> FALSE]),
          JsonReply(200, JsonNull)}
    \cup InvalidJsonReplies \cup TextReplies

\* Mutant of DemoMode: the fallback is not gated on the flag.
DemoModeAlways(ss) == TRUE

\* st.session_state.get("demo_mode")
DemoMode(ss) == Truthy(ss, "demo_mode")

\* Mutant of RagRequest: the "Use Context" checkbox is ignored.
RagRequestIgnoringCheckbox(ss, query, collection, use_conversation) ==
    IF HasCurrent(ss)
    THEN RagConversationRequest(query, ss.current_conversation, collection)
    ELSE RagQueryRequest(query, collection)

\* process_rag_query, the choice of the endpoint
RagRequest(ss, query, collection, use_conversation) ==
    IF use_conversation /\ HasCurrent(ss)
    THEN RagConversationRequest(query, ss.current_conversation, collection)
    ELSE RagQueryRequest(query, collection)

\* process_rag_query: [ss, ui, net, uuids].  uid is the last uuid4 drawn before.
ProcessRagQuery(ss, query, collection, use_conversation, top_k, enable_caching, reply, rnd, t, uid) ==
    LET req == RagRequest(ss, query, collection, use_conversation)
        r == MakeRequest(req.method, req.endpoint, req.kwargs, reply, t)
        net1 == <<Exchange(req.method, req.endpoint, req.kwargs, reply)>>
        response == r.value
        \* The demo branch: mock response, stored and displayed; s is the
        \* session, n the uuids drawn and u the elements rendered before it.
        Demo(s, n, u) ==
            LET mock_response == GenerateMockRagResponse(query, collection, rnd)
            IN  [ss |-> StoreConversationMessage(s, query, mock_response, t, uid + n + 1),
                 ui |-> u \o DisplayRagResults(mock_response).ui,
                 net |-> net1,
                 uuids |-> n + Stores(s)]
        \* The except block.
        Except(s, n, u, e) ==
            LET u1 == u \o <<Error(<<"Error processing query: ", e>>)>>
            IN  IF DemoMode(s)
                THEN Demo(s, n, u1)
                ELSE [ss |-> s, ui |-> u1, net |-> net1, uuids |-> n]
    IN  IF r.raised # "" THEN Except(ss, 0, r.ui, r.raised)
        ELSE IF ~IsDict(response) THEN Except(ss, 0, r.ui, "AttributeError")
        ELSE IF Truthy(response, "success")
        THEN IF "data" \notin DOMAIN response
             THEN Except(ss, 0, r.ui, "KeyError")
             ELSE LET data == response.data
                      s1 == StoreConversationMessage(ss, query, data, t, uid + 1)
                      d == DisplayRagResults(data)
                  IN  IF d.raised # ""
                      THEN Except(s1, Stores(ss), r.ui \o d.ui, d.raised)
                      ELSE [ss |-> s1, ui |-> r.ui \o d.ui, net |-> net1,
                            uuids |-> Stores(ss)]
        ELSE IF DemoMode(ss)
        THEN Demo(ss, 0, r.ui)
        ELSE [ss |-> ss,
              ui |-> r.ui \o <<Error(<<"Query failed: ">>
                                     \o Get(response, "error", <<"Unknown error">>))>>,
              net |-> net1,
              uuids |-> 0]

\* Mutant of HistoryView: the last five, oldest first.
HistoryViewOldestFirst(messages) ==
    LET n == Len(messages)
        k == IF n < 5 THEN n ELSE 5
    IN  [i \in 1..k |-> messages[n - k + i]]

\* conversation["messages"][-5:], reversed
HistoryView(messages) ==
    LET n == Len(messages)
        k == IF n < 5 THEN n ELSE 5
    IN  [i \in 1..k |-> messages[n + 1 - i]]

\* display_conversation_history: the elements rendered.  A stored response that
\* is None makes message['response'].get raise, which ends the script run.
DisplayConversationHistory(ss) ==
    IF ~HasCurrent(ss) THEN <<>>
    ELSE LET conversation == Get(ss.conversations, ss.current_conversation, JsonNull)
         IN  IF ~IsDict(conversation) \/ conversation.messages = <<>>
             THEN <<>>
             ELSE LET view == HistoryView(conversation.messages)
                      bad == {i \in DOMAIN view : ~IsDict(view[i].response)}
                      last == IF bad = {} THEN Len(view) ELSE Min(bad)
                  IN  <<Subheader(<<"Conversation History">>)>>
                      \o [i \in 1..last |->
                            IF i \in bad
                            THEN [w |-> "exception", you |-> view[i].query,
                                  raised |-> "AttributeError"]
                            ELSE [w |-> "turn", you |-> view[i].query,
                                  assistant |-> Get(view[i].response, "answer",
                                                    <<"No response">>),
                                  caption |-> Strftime(view[i].timestamp)]]

\* show_rag_explorer, up to the conversation selector: the permission note and
\* the creation of the conversation map.
PermissionNote(ss) ==
    IF ~HasPermission(ss, "ai:monitor")
    THEN <<Info(<<"This is a demo of the RAG explorer. In production, you would need AI monitoring permissions.">>)>>
    ELSE <<>>
EnsureConversations(ss) ==
    IF "conversations" \notin DOMAIN ss THEN Put(ss, "conversations", EmptyDict) ELSE ss

\* ----------------------------------------------------------------- actions
\* Streamlit runs the script once per event.  A handler below is one such run:
\* it records in op its name, its inputs and the session state it started
\* from (before), in net its HTTP exchanges and in ui what it rendered.  The
\* page then waits (AwaitEvent): the next run starts from an empty page.

Idle == [name |-> "idle"]

\* The process is started with API_BASE_URL unset: the default is used.
Init ==
    /\ environ = EmptyDict
    /\ session_state = EmptyDict
    /\ now = 0
    /\ uuid_count = 0
    /\ op = Idle
    /\ net = <<>>
    /\ ui = <<>>

\* The run is over; the page waits for the next event.
AwaitEvent ==
    /\ op # Idle
    /\ op' = Idle
    /\ net' = <<>>
    /\ ui' = <<>>
    /\ UNCHANGED <<session_state, now, uuid_count>>
    /\ UNCHANGED environ

\* Time passes between two events.
Tick ==
    /\ op = Idle
    /\ now < MaxTime
    /\ now' = now + 1
    /\ UNCHANGED <<session_state, uuid_count, op, net, ui>>
    /\ UNCHANGED environ

\* The login form is submitted with valid-looking input: login_user runs.
Login ==
    /\ op = Idle
    /\ ~CheckAuthentication(session_state)
    /\ \E cred \in Credentials,
          reply \in SessionRequest(ApiBaseUrl(environ), "/api/auth/login", LoginReplies) :
          LET email == cred[1]
              password == cred[2]
              out == LoginUser(session_state, email, password, reply, now)
          IN  /\ session_state' = out.ss
              /\ op' = [name |-> "login_user", email |-> email, password |-> password,
                        result |-> out.result, before |-> session_state]
              /\ net' = <<Exchange("POST", "/api/auth/login",
                                   LoginRequest(email, password).kwargs, reply)>>
              /\ ui' = out.ui
    /\ UNCHANGED <<now, uuid_count>>
    /\ UNCHANGED environ

\* A page is requested without a form submission while the session is not
\* authenticated: main, and require_auth around the page function, render the
\* login form and return before the page runs.
ShowLoginForm ==
    /\ op = Idle
    /\ ~CheckAuthentication(session_state)
    /\ op' = [name |-> "show_login_form", before |-> session_state]
    /\ net' = <<>>
    /\ ui' = <<[w |-> "login_form"]>>
    /\ UNCHANGED <<session_state, now, uuid_count>>
    /\ UNCHANGED environ

\* The Logout button of the sidebar.
Logout ==
    /\ op = Idle
    /\ CheckAuthentication(session_state)
    /\ session_state' = LogoutUser(session_state)
    /\ op' = [name |-> "logout_user", before |-> session_state]
    /\ net' = <<>>
    /\ ui' = <<>>
    /\ UNCHANGED <<now, uuid_count>>
    /\ UNCHANGED environ

\* The RAG explorer page is rendered with no button pressed.
ShowRagExplorer ==
    /\ op = Idle
    /\ CheckAuthentication(session_state)
    /\ LET s1 == EnsureConversations(session_state)
       IN  /\ session_state' = s1
           /\ ui' = PermissionNote(s1) \o DisplayConversationHistory(s1)
    /\ op' = [name |-> "show_rag_explorer", before |-> session_state]
    /\ net' = <<>>
    /\ UNCHANGED <<now, uuid_count>>
    /\ UNCHANGED environ

\* Mutant of StartNewConversation: an entry the map already holds under the
\* new identifier is kept.
StartNewConversationKeeping ==
    /\ op = Idle
    /\ CheckAuthentication(session_state)
    /\ LET s1 == EnsureConversations(session_state)
           conversation_id == ConversationId(now)
           s2 == Put(Put(s1, "conversations",
                         Put(s1.conversations, conversation_id,
                             Get(s1.conversations, conversation_id,
                                 [messages |-> <<>>, created_at |-> now]))),
                     "current_conversation", conversation_id)
       IN  /\ session_state' = s2
           /\ ui' = PermissionNote(s2) \o DisplayConversationHistory(s2)
    /\ op' = [name |-> "start_new_conversation", before |-> session_state]
    /\ net' = <<>>
    /\ UNCHANGED <<now, uuid_count>>
    /\ UNCHANGED environ

\* "New Conversation" is selected and "Start New Conversation" pressed; the
\* script reruns and renders the page.
StartNewConversation ==
    /\ op = Idle
    /\ CheckAuthentication(session_state)
    /\ LET s1 == EnsureConversations(session_state)
           conversation_id == ConversationId(now)
           s2 == Put(Put(s1, "conversations",
                         Put(s1.conversations, conversation_id,
                             [messages |-> <<>>, created_at |-> now])),
                     "current_conversation", conversation_id)
       IN  /\ session_state' = s2
           /\ ui' = PermissionNote(s2) \o DisplayConversationHistory(s2)
    /\ op' = [name |-> "start_new_conversation", before |-> session_state]
    /\ net' = <<>>
    /\ UNCHANGED <<now, uuid_count>>
    /\ UNCHANGED environ

\* A stored conversation is picked in the selector.
SelectConversation ==
    /\ op = Idle
    /\ CheckAuthentication(session_state)
    /\ LET s1 == EnsureConversations(session_state)
       IN  \E selected_conversation \in DOMAIN s1.conversations :
              LET s2 == Put(s1, "current_conversation", selected_conversation)
              IN  /\ session_state' = s2
                  /\ ui' = PermissionNote(s2) \o DisplayConversationHistory(s2)
                  /\ op' = [name |-> "select_conversation",
                            selected |-> selected_conversation,
                            before |-> session_state]
    /\ net' = <<>>
    /\ UNCHANGED <<now, uuid_count>>
    /\ UNCHANGED environ

\* Mutant of ClearConversation: the conversation is removed from the map.
ClearConversationDeleting ==
    /\ op = Idle
    /\ CheckAuthentication(session_state)
    /\ LET s1 == EnsureConversations(session_state)
       IN  /\ HasCurrent(s1)
           /\ LET cid == s1.current_conversation
                  s2 == Put(s1, "conversations",
                            [c \in DOMAIN s1.conversations \ {cid} |-> s1.conversations[c]])
              IN  /\ session_state' = s2
                  /\ ui' = PermissionNote(s2) \o DisplayConversationHistory(s2)
    /\ op' = [name |-> "clear_conversation", before |-> session_state]
    /\ net' = <<>>
    /\ UNCHANGED <<now, uuid_count>>
    /\ UNCHANGED environ

\* "Clear Conversation" is pressed; the script reruns and renders the page.
ClearConversation ==
    /\ op = Idle
    /\ CheckAuthentication(session_state)
    /\ LET s1 == EnsureConversations(session_state)
       IN  /\ HasCurrent(s1)
           /\ LET cid == s1.current_conversation
                  s2 == IF cid \in DOMAIN s1.conversations
                        THEN Put(s1, "conversations",
                                 Put(s1.conversations, cid,
                                     Put(s1.conversations[cid], "messages", <<>>)))
                        ELSE s1
              IN  /\ session_state' = s2
                  /\ ui' = PermissionNote(s2) \o DisplayConversationHistory(s2)
    /\ op' = [name |-> "clear_conversation", before |-> session_state]
    /\ net' = <<>>
    /\ UNCHANGED <<now, uuid_count>>
    /\ UNCHANGED environ

\* The advanced options, left at their defaults.
TopKs == {5}
Cachings == {TRUE}

\* Mutant of IsBlank: the query is not stripped.
IsBlankUnstripped(query) == query = <<>>

\* not query.strip()
IsBlank(query) == Strip(query) = <<>>

\* show_query_interface, the "Search Knowledge Base" button: [ss, ui, net, uuids]
SearchKnowledgeBase(ss, query, collection, use_conversation, top_k, enable_caching, reply, rnd, t, uid) ==
    IF ~IsBlank(query)
    THEN ProcessRagQuery(ss, query, collection, use_conversation, top_k,
                         enable_caching, reply, rnd, t, uid)
    ELSE [ss |-> ss, ui |-> <<Warning(<<"Please enter a question.">>)>>,
          net |-> <<>>, uuids |-> 0]

\* Nothing is drawn unless generate_mock_rag_response runs, which needs demo_mode.
DrawsIn(ss) ==
    IF DemoMode(ss) THEN RandomDraws ELSE {CHOOSE d \in RandomDraws : TRUE}

\* A question is submitted on the query tab.
SubmitQuery ==
    /\ op = Idle
    /\ CheckAuthentication(session_state)
    /\ uuid_count < MaxTurns
    /\ \E query \in Queries, collection \in Collections, use_conversation \in BOOLEAN,
          top_k \in TopKs, enable_caching \in Cachings, rnd \in DrawsIn(session_state) :
       \E reply \in SessionRequest(ApiBaseUrl(environ),
                                   RagRequest(EnsureConversations(session_state), query,
                                              collection, use_conversation).endpoint,
                                   RagReplies) :
          LET s1 == EnsureConversations(session_state)
              out == SearchKnowledgeBase(s1, query, collection, use_conversation, top_k,
                                         enable_caching, reply, rnd, now, uuid_count)
          IN  /\ session_state' = out.ss
              /\ uuid_count' = uuid_count + out.uuids
              /\ net' = out.net
              /\ ui' = PermissionNote(s1) \o out.ui \o DisplayConversationHistory(out.ss)
              /\ op' = [name |-> "search", query |-> query, collection |-> collection,
                        use_conversation |-> use_conversation,
                        before |-> session_state]
    /\ UNCHANGED now
    /\ UNCHANGED environ

\* ---------------------------------------------------------------- dashboard
Title(text) == [w |-> "title", text |-> text]
Success(text) == [w |-> "success", text |-> text]
Metric(label) == [w |-> "metric", label |-> label]
Chart(name) == [w |-> "plotly_chart", name |-> name]
Checkbox(label, value) == [w |-> "checkbox", label |-> label, value |-> value]
Tabs == [w |-> "tabs", labels |-> <<"Overview", "Risk Analysis", "Portfolio", "Real-time">>]
PermissionError == Error(<<"You don't have permission to view this dashboard.">>)

\* APIClient.get_system_health
HealthRequest == [method |-> "GET", endpoint |-> "/health", kwargs |-> EmptyDict]
\* Answers of the backend's /health endpoint.
HealthReplies ==
    TransportErrors
    \cup {JsonReply(200, [success |-> TRUE, data |-> [status |-> "healthy"]]),
          JsonReply(503, [success |-> FALSE]),
          JsonReply(200, JsonNull)}
    \cup InvalidJsonReplies \cup TextReplies

ShowOverviewDashboard ==
    <<Subheader(<<"Key Performance Indicators">>),
      Metric("Applications Today"), Metric("Approval Rate"),
      Metric("Avg Processing Time"), Metric("Total Volume"),
      Chart("fig_apps"), Chart("fig_decisions"),
      Subheader(<<"Risk Score Distribution">>), Chart("fig_risk")>>
ShowRiskAnalysisDashboard ==
    <<Subheader(<<"Risk Analysis Dashboard">>),
      [w |-> "selectbox", label |-> "Risk Grade"],
      [w |-> "selectbox", label |-> "Loan Purpose"],
      [w |-> "select_slider", label |-> "Loan Amount Range"],
      Metric("Avg Risk Score"), Metric("Default Rate"), Metric("Expected Loss"),
      Chart("fig_scatter"), Chart("fig_heatmap")>>
ShowPortfolioDashboard ==
    <<Subheader(<<"Portfolio Analysis">>),
      Metric("Total Portfolio"), Metric("Active Loans"),
      Metric("Monthly Revenue"), Metric("At Risk Loans"),
      Chart("fig_purpose"), Chart("fig_performance")>>
\* show_realtime_dashboard: [ui, net].  With the auto-refresh box ticked the
\* script sleeps and st.rerun() ends the run before anything below the box.
ShowRealtimeDashboard(auto_refresh, reply, t) ==
    LET head == <<Subheader(<<"Real-time Monitoring">>),
                  Checkbox("Auto-refresh (30s)", auto_refresh)>>
        r == MakeRequest(HealthRequest.method, HealthRequest.endpoint,
                         HealthRequest.kwargs, reply, t)
        health ==
            IF r.raised # "" \/ ~IsDict(r.value)
            THEN Info(<<"System health check unavailable (demo mode)">>)
            ELSE IF Truthy(r.value, "success")
                 THEN Success(<<"All systems operational">>)
                 ELSE Warning(<<"Some services may be unavailable">>)
    IN  IF auto_refresh
        THEN [ui |-> head, net |-> <<>>]
        ELSE [ui |-> head
                     \o <<Metric("Processing Queue"), Metric("Avg Response Time"),
                          Metric("AI Model Load"), Subheader(<<"System Health">>)>>
                     \o r.ui \o <<health>>
                     \o <<Subheader(<<"Recent Activity">>), [w |-> "dataframe"]>>,
              net |-> <<Exchange(HealthRequest.method, HealthRequest.endpoint,
                                 HealthRequest.kwargs, reply)>>]

\* The Dashboard entry of the menu: require_auth(show_dashboard)().
ShowDashboard ==
    /\ op = Idle
    /\ \E auto_refresh \in BOOLEAN,
          reply \in SessionRequest(ApiBaseUrl(environ), HealthRequest.endpoint, HealthReplies) :
        LET rt == ShowRealtimeDashboard(auto_refresh, reply, now)
            title == <<Title(<<"Credit Decision Dashboard">>)>>
        IN  IF ~CheckAuthentication(session_state)
            THEN ui' = <<[w |-> "login_form"]>> /\ net' = <<>>
            ELSE IF ~HasPermission(session_state, "applications:view")
                 THEN ui' = title \o <<PermissionError>> /\ net' = <<>>
                 ELSE /\ ui' = title \o <<Tabs>> \o ShowOverviewDashboard
                                \o ShowRiskAnalysisDashboard \o ShowPortfolioDashboard
                                \o rt.ui
                      /\ net' = rt.net
    /\ op' = [name |-> "show_dashboard", before |-> session_state]
    /\ UNCHANGED <<session_state, now, uuid_count>>
    /\ UNCHANGED environ

Next ==
    \/ AwaitEvent
    \/ Tick
    \/ Login
    \/ ShowLoginForm
    \/ Logout
    \/ ShowRagExplorer
    \/ StartNewConversation
    \/ SelectConversation
    \/ ClearConversation
    \/ SubmitQuery
    \/ ShowDashboard

Spec == Init /\ [][Next]_vars

\* ------------------------------------------------------------------ claims
\* What the formulas below read off the last script run.

\* process_rag_query ran: a non-blank question was submitted.
Ran == op.name = "search" /\ net # <<>>
TheReply == net[1].reply
\* The HTTP request raised a transport error.
Unreachable == TheReply.kind # "response"
\* The backend answered with a JSON object.
HasEnvelope == "json" \in DOMAIN TheReply /\ IsDict(TheReply.json)
Envelope == TheReply.json
Ok2xx == TheReply.kind = "response" /\ TheReply.status_code \in 200..299
\* A success envelope that carries a response object.
BackendSuccess ==
    /\ HasEnvelope
    /\ Truthy(Envelope, "success")
    /\ "data" \in DOMAIN Envelope
    /\ IsDict(Envelope.data)
\* A success:false envelope.
BackendRejected ==
    HasEnvelope /\ "success" \in DOMAIN Envelope /\ Envelope.success = FALSE
DemoOn == "demo_mode" \in DOMAIN op.before /\ op.before.demo_mode = TRUE
Shown(w) == {i \in DOMAIN ui : ui[i].w = w}
IsSource(e) == e.w = "source"
SourcesShown == SelectSeq(ui, IsSource)
ConversationsOf(ss) == IF "conversations" \in DOMAIN ss THEN ss.conversations ELSE EmptyDict
MessagesOf(ss, cid) ==
    IF cid \in DOMAIN ConversationsOf(ss) THEN ConversationsOf(ss)[cid].messages ELSE <<>>
WasActive == "current_conversation" \in DOMAIN op.before
Active == op.before.current_conversation
StoreUnchanged == ConversationsOf(session_state) = ConversationsOf(op.before)
\* The turns the run appended to the active conversation.
NewTurns ==
    IF WasActive
    THEN SubSeq(MessagesOf(session_state, Active),
                Len(MessagesOf(op.before, Active)) + 1,
                Len(MessagesOf(session_state, Active)))
    ELSE <<>>
\* The turns the active conversation held are still its first turns.
PrefixKept ==
    WasActive =>
        /\ Len(MessagesOf(session_state, Active)) >= Len(MessagesOf(op.before, Active))
        /\ SubSeq(MessagesOf(session_state, Active), 1, Len(MessagesOf(op.before, Active)))
               = MessagesOf(op.before, Active)
OthersUntouched ==
    \A c \in DOMAIN ConversationsOf(op.before) :
        (WasActive /\ c = Active)
        \/ (c \in DOMAIN ConversationsOf(session_state)
            /\ ConversationsOf(session_state)[c] = ConversationsOf(op.before)[c])
AllStoredTurns ==
    UNION {{ConversationsOf(session_state)[c].messages[i] :
                i \in DOMAIN ConversationsOf(session_state)[c].messages} :
            c \in DOMAIN ConversationsOf(session_state)}
AllWhitespace(s) == \A i \in DOMAIN s : s[i] \in Whitespace
\* A response object of the shape the mock synthesizer promises.
Synthesized(r) ==
    /\ IsDict(r)
    /\ {"answer", "confidence", "sources"} \subseteq DOMAIN r
    /\ r.answer # <<>>
    /\ r.confidence \in 70..95
    /\ Len(r.sources) >= 1

\* C1: with the backend unreachable and demo mode off, process_rag_query
\* shows an error, shows no answer (fabricated or placeholder) and appends no
\* Turn to any conversation.
C1_UnreachableStrictIsAnError ==
    (Ran /\ Unreachable /\ ~DemoOn) =>
        /\ Shown("error") # {}
        /\ Shown("answer") = {}
        /\ StoreUnchanged

\* C2: with the backend unreachable and demo mode on, the response recorded
\* and displayed is a synthesized one: confidence in [0.70, 0.95], a non-empty
\* answer, at least one source; for a "credit score" query the answer mentions
\* 650 and 700, there are exactly 2 sources and exactly 1 Turn is recorded.
C2_UnreachableDemoIsSynthesized ==
    (Ran /\ Unreachable /\ DemoOn) =>
        /\ \E i \in Shown("answer") : ui[i].text # <<>>
        /\ \E i \in Shown("confidence") : ui[i].value \in 70..95
        /\ Len(SourcesShown) >= 1
        /\ \A i \in DOMAIN NewTurns : Synthesized(NewTurns[i].response)
        /\ Contains(KwCreditScore, Lower(op.query)) =>
              /\ \E i \in Shown("answer") :
                    Contains(<<"650">>, ui[i].text) /\ Contains(<<"700">>, ui[i].text)
              /\ Len(SourcesShown) = 2
              /\ WasActive => Len(NewTurns) = 1

C4_RejectedStrictIsAnError ==
    (Ran /\ BackendRejected /\ ~DemoOn) =>
        /\ Shown("error") # {}
        /\ Shown("answer") = {}
        /\ StoreUnchanged

\* C4 witness: a success:false envelope, demo mode off, with a turn in the
\* active conversation.
C4_Witness ==
    /\ Ran /\ BackendRejected /\ ~DemoOn
    /\ WasActive
    /\ MessagesOf(op.before, Active) # <<>>

\* C5: a response that does not come from the backend is produced only when
\* the call failed and demo_mode is set, and it is then the mock response,
\* displayed and appended as one Turn to the active conversation; none is
\* ever produced while demo_mode is unset.
C5_FabricationNeedsDemoMode ==
    Ran =>
        LET failed == ~(Ok2xx /\ BackendSuccess)
            fabricated ==
                \/ \E i \in Shown("answer") : ~BackendSuccess \/ ui[i].text # Envelope.data.answer
                \/ \E i \in DOMAIN NewTurns :
                      ~BackendSuccess \/ NewTurns[i].response # Envelope.data
        IN  /\ fabricated => (DemoOn /\ failed)
            /\ (DemoOn /\ failed) =>
                  /\ \E i \in Shown("answer") : TRUE
                  /\ WasActive =>
                        /\ Len(NewTurns) = 1
                        /\ Synthesized(NewTurns[1].response)

\* C6: no stored Turn has a response without an answer.
C6_EveryTurnHasAnAnswer ==
    \A m \in AllStoredTurns :
        IsDict(m.response) /\ "answer" \in DOMAIN m.response

\* C7: the conversational endpoint is called, with the current conversation
\* id, exactly when use_conversation is true and a current conversation is
\* set; otherwise the stateless endpoint is called with query and collection
\* only.  One request is made.
C7_EndpointChoice ==
    Ran =>
        /\ Len(net) = 1
        /\ net[1].method = "POST"
        /\ IF op.use_conversation /\ WasActive
           THEN /\ net[1].endpoint = "/api/ai/rag/conversation"
                /\ net[1].kwargs = [json |-> [query |-> op.query,
                                              conversationId |-> Active,
                                              collection |-> op.collection]]
           ELSE /\ net[1].endpoint = "/api/ai/rag/query"
                /\ net[1].kwargs = [json |-> [query |-> op.query,
                                              collection |-> op.collection]]

\* C7 witness: the checkbox is off while a conversation is active.
C7_Witness == Ran /\ WasActive /\ ~op.use_conversation

\* C8: a query that is empty after trimming whitespace makes no backend
\* request, shows no answer and leaves the conversation store as it was.
C8_BlankQueryNotDispatched ==
    (op.name = "search" /\ AllWhitespace(op.query)) =>
        /\ net = <<>>
        /\ Shown("warning") # {}
        /\ Shown("answer") = {}
        /\ StoreUnchanged

\* C8 witness: a query of whitespace only was submitted with a conversation
\* active.
C8_Witness ==
    /\ op.name = "search"
    /\ op.query # <<>>
    /\ AllWhitespace(op.query)
    /\ WasActive

\* C9: a reply with a non-2xx status is a failure: its body is not recorded
\* as a Turn, and with demo mode off an error is shown and no answer.
C9_Non2xxIsFailure ==
    (Ran /\ TheReply.kind = "response" /\ ~Ok2xx) =>
        /\ \A i \in DOMAIN NewTurns :
              ~(HasEnvelope /\ "data" \in DOMAIN Envelope
                /\ NewTurns[i].response = Envelope.data)
        /\ ~DemoOn => (Shown("error") # {} /\ Shown("answer") = {})

\* C10: in demo mode, whenever the query failed (a transport error, a failure
\* envelope or a raised exception), an answer is displayed and no error is.
C10_DemoFailuresInvisible ==
    (Ran /\ DemoOn /\ ~(Ok2xx /\ BackendSuccess)) =>
        /\ Shown("answer") # {}
        /\ Shown("error") = {}

\* The conversation the last run created or selected.
Created == session_state.current_conversation

\* C11: a conversation created by "Start New Conversation" gets an identifier
\* that no conversation already in the store has.
C11_NewIdentifierIsFresh ==
    op.name = "start_new_conversation" =>
        Created \notin DOMAIN ConversationsOf(op.before)

\* The runs of the RAG explorer page function.
PageOps ==
    {"search", "show_rag_explorer", "start_new_conversation", "select_conversation",
     "clear_conversation"}
Authenticated(ss) == {"api_token", "user_data"} \subseteq DOMAIN ss

\* C12: the RAG explorer page runs (renders, dispatches a query, touches the
\* conversations) only in a session that holds both api_token and user_data;
\* in any other session the login form is shown, nothing is sent and the
\* session is left as it was.
C12_OperatesOnlyAuthenticated ==
    /\ op.name \in PageOps => Authenticated(op.before)
    /\ op.name = "show_login_form" =>
          /\ ~Authenticated(op.before)
          /\ net = <<>>
          /\ session_state = op.before
          /\ \A i \in DOMAIN ui : ui[i].w = "login_form"

\* C12 witness: a session that holds a token but no user data asked for the
\* page and got the login form.
C12_Witness ==
    /\ op.name = "show_login_form"
    /\ "api_token" \in DOMAIN op.before

\* The permission the RAG explorer asks for: "ai:monitor", or the wildcard.
MayMonitor(ss) ==
    /\ "user_data" \in DOMAIN ss
    /\ "permissions" \in DOMAIN ss.user_data
    /\ ({"*", "ai:monitor"} \cap ss.user_data.permissions) # {}

\* C13: the RAG explorer refuses to operate for a user without "ai:monitor"
\* (or "*"): no query of such a user is dispatched to the backend.
C13_NoDispatchWithoutPermission ==
    (op.name = "search" /\ net # <<>>) => MayMonitor(op.before)

\* ------------------------------------------- generate_mock_rag_response alone
\* The synthesizer applied to sample queries, collections and random draws.
QCreditRisk == <<"r","i","s","k"," ","c","r","e","d","i","t"," ","s","c","o","r","e">>
QCreditUpper == <<"C","R","E","D","I","T"," ","S","C","O","R","E">>
QRisk == <<" ","R","i","s","k"," ">>
QRiskUpper == <<"R","I","S","K","Y">>
QCreditOnly == <<"c","r","e","d","i","t">>
QScoreCredit == <<"s","c","o","r","e"," ","c","r","e","d","i","t">>
MockQueries ==
    {QCredit, QCreditRisk, QCreditUpper, QRisk, QRiskUpper, QLoan, QCreditOnly,
     QScoreCredit}
\* The four options of the "Knowledge Base" selectbox.
AllCollections == {"credit_policies", "risk_guidelines", "compliance_docs", "all_documents"}

MockInit ==
    /\ environ = EmptyDict
    /\ session_state = EmptyDict
    /\ now = 0
    /\ uuid_count = 0
    /\ net = <<>>
    /\ ui = <<>>
    /\ \E query \in MockQueries, collection \in AllCollections, rnd \in RandomDraws :
          op = [name |-> "mock_input", query |-> query, collection |-> collection,
                rnd |-> rnd]

GenerateMock ==
    /\ op.name = "mock_input"
    /\ op' = [name |-> "generate_mock_rag_response", query |-> op.query,
              collection |-> op.collection, rnd |-> op.rnd,
              result |-> GenerateMockRagResponse(op.query, op.collection, op.rnd)]
    /\ UNCHANGED <<session_state, now, uuid_count, net, ui>>
    /\ UNCHANGED environ

MockNext == GenerateMock

MockSpec == MockInit /\ [][MockNext]_vars

\* The sample queries by the keyword they hold, whatever their casing.
CreditScoreQueries == {QCredit, QCreditRisk, QCreditUpper}
RiskQueries == {QRisk, QRiskUpper}
Titles(r) == [i \in DOMAIN r.sources |-> r.sources[i].title]
Elements(s) == {s[i] : i \in DOMAIN s}

\* C14: a query holding "credit score" in any casing gets the credit-score
\* template, also when it holds "risk"; one holding "risk" but not "credit
\* score" gets the risk template; any other gets the generic template, whose
\* answer holds the query as typed and the collection name.  The template does
\* not depend on the random draws.
C14_KeywordClassification ==
    op.name = "generate_mock_rag_response" =>
        LET r == op.result
        IN  IF op.query \in CreditScoreQueries
            THEN /\ Titles(r) = <<"Personal Loan Credit Policy", "Credit Scoring Guidelines">>
                 /\ Contains(<<"650">>, r.answer) /\ Contains(<<"700">>, r.answer)
            ELSE IF op.query \in RiskQueries
            THEN /\ Titles(r) = <<"Risk Assessment Framework">>
                 /\ ~Contains(<<"650">>, r.answer)
            ELSE /\ Titles(r) = <<"General Policy Document">>
                 /\ Contains(op.query, r.answer)
                 /\ op.collection \in Elements(r.answer)

\* C14 witness: the query "risk credit score", which holds both keywords, was
\* classified.
C14_Witness ==
    /\ op.name = "generate_mock_rag_response"
    /\ op.query = QCreditRisk
    /\ op.rnd.confidence = 95

\* ------------------- store_conversation_message / display_conversation_history
\* The conversation store on its own: turns are appended to the current
\* conversation and the history is displayed, starting from a conversation map
\* that holds the current id or does not.
StoreInputs ==
    {[conversations |-> [c \in {<<"conv_", 0>>} |-> [messages |-> <<>>, created_at |-> 0]],
      current_conversation |-> <<"conv_", 0>>],
     [conversations |-> EmptyDict,
      current_conversation |-> <<"conv_", 0>>],
     [conversations |-> [c \in {<<"conv_", 0>>} |-> [messages |-> <<>>, created_at |-> 0]],
      current_conversation |-> <<"conv_", 1>>]}

StoreInit ==
    /\ environ = EmptyDict
    /\ session_state \in StoreInputs
    /\ now = 0
    /\ uuid_count = 0
    /\ op = Idle
    /\ net = <<>>
    /\ ui = <<>>

\* store_conversation_message(query, response), at the clock's time or a tick later.
StoreMessage ==
    /\ uuid_count < MaxStored
    /\ \E query \in {QCredit, QLoan}, dt \in {0, 1} :
          /\ now' = now + dt
          /\ session_state' = StoreConversationMessage(session_state, query, BackendAnswer,
                                                       now + dt, uuid_count + 1)
          /\ op' = [name |-> "store_conversation_message", query |-> query,
                    response |-> BackendAnswer, before |-> session_state]
    /\ uuid_count' = uuid_count + 1
    /\ ui' = <<>>
    /\ UNCHANGED net
    /\ UNCHANGED environ

\* display_conversation_history()
ViewHistory ==
    /\ ui' = DisplayConversationHistory(session_state)
    /\ op' = [name |-> "display_conversation_history", before |-> session_state]
    /\ UNCHANGED <<session_state, now, uuid_count, net>>
    /\ UNCHANGED environ

StoreNext == StoreMessage \/ ViewHistory

StoreSpec == StoreInit /\ [][StoreNext]_vars

IsTurn(e) == e.w = "turn"
TurnsShown == SelectSeq(ui, IsTurn)
CurrentMessages == MessagesOf(session_state, session_state.current_conversation)

\* C15: after n turns were appended to a conversation its history shows
\* exactly the min(n, 5) most recent ones, newest first.
C15_HistoryIsLastFiveNewestFirst ==
    op.name = "display_conversation_history" =>
        LET n == Len(CurrentMessages)
        IN  /\ Len(TurnsShown) = (IF n < 5 THEN n ELSE 5)
            /\ \A i \in DOMAIN TurnsShown :
                  /\ TurnsShown[i].you = CurrentMessages[n + 1 - i].query
                  /\ TurnsShown[i].assistant = CurrentMessages[n + 1 - i].response.answer
                  /\ TurnsShown[i].caption = Strftime(CurrentMessages[n + 1 - i].timestamp)

\* C15 witness: the history of a conversation of 7 turns, with different
\* queries among the last five, was displayed.
C15_Witness ==
    /\ op.name = "display_conversation_history"
    /\ Len(CurrentMessages) = 7
    /\ CurrentMessages[3].query # CurrentMessages[7].query
    /\ CurrentMessages[2].query # CurrentMessages[3].query

\* C16: "Clear Conversation" empties the turn list of the current conversation
\* and keeps its identifier in the map: afterwards its history is empty, the
\* map has the same keys and every other conversation is as it was.
C16_ClearEmptiesAndKeepsId ==
    op.name = "clear_conversation" =>
        /\ Active \in DOMAIN ConversationsOf(session_state)
        /\ MessagesOf(session_state, Active) = <<>>
        /\ TurnsShown = <<>>
        /\ DOMAIN ConversationsOf(session_state) = DOMAIN ConversationsOf(op.before)
        /\ session_state.current_conversation = Active
        /\ OthersUntouched

\* C16 witness: a conversation holding a turn was cleared while another
\* conversation held a turn too.
C16_Witness ==
    /\ op.name = "clear_conversation"
    /\ MessagesOf(op.before, Active) # <<>>
    /\ \E c \in DOMAIN ConversationsOf(op.before) :
          c # Active /\ MessagesOf(op.before, c) # <<>>

\* C17: a conversation that was just created is the current one, is in the
\* map and has an empty history.
C17_NewConversationIsEmpty ==
    op.name = "start_new_conversation" =>
        /\ Created \in DOMAIN ConversationsOf(session_state)
        /\ MessagesOf(session_state, Created) = <<>>
        /\ TurnsShown = <<>>

\* C17 witness: a conversation was created in the second in which the map
\* already held a conversation with a turn.
C17_Witness ==
    /\ op.name = "start_new_conversation"
    /\ MessagesOf(op.before, Created) # <<>>

\* C18: store_conversation_message with a current conversation id the map
\* does not hold adds that id to the map and leaves it holding exactly the
\* one turn stored; the other conversations are as they were.
C18_ImplicitCreate ==
    (op.name = "store_conversation_message"
        /\ Active \notin DOMAIN ConversationsOf(op.before)) =>
        /\ DOMAIN ConversationsOf(session_state)
              = DOMAIN ConversationsOf(op.before) \cup {Active}
        /\ Len(MessagesOf(session_state, Active)) = 1
        /\ MessagesOf(session_state, Active)[1].query = op.query
        /\ MessagesOf(session_state, Active)[1].response = op.response
        /\ OthersUntouched

\* C18 witness: a turn was stored under an id the map did not hold, while the
\* map held another conversation.
C18_Witness ==
    /\ op.name = "store_conversation_message"
    /\ Active \notin DOMAIN ConversationsOf(op.before)
    /\ ConversationsOf(op.before) # EmptyDict

IsPrefix(s, t) == Len(s) <= Len(t) /\ SubSeq(t, 1, Len(s)) = s

\* C19: turns are append-only and ordered: a run of the page other than
\* "Clear Conversation" leaves every conversation holding its earlier turns,
\* unchanged, as the first turns of its list, and the turns of a list are in
\* the order of their timestamps.
C19_TurnsAppendOnly ==
    /\ op.name \in (PageOps \ {"clear_conversation"}) =>
          \A c \in DOMAIN ConversationsOf(op.before) :
              /\ c \in DOMAIN ConversationsOf(session_state)
              /\ IsPrefix(MessagesOf(op.before, c), MessagesOf(session_state, c))
    /\ \A c \in DOMAIN ConversationsOf(session_state) :
          \A i, j \in DOMAIN MessagesOf(session_state, c) :
              i <= j => MessagesOf(session_state, c)[i].timestamp
                            <= MessagesOf(session_state, c)[j].timestamp

\* C20: a timeout is handled like any other transport failure: what a run
\* that met a transport error stored, drew and rendered is what the same run
\* stores, draws and renders with any other transport error in its place.
C20_TimeoutLikeConnectionFailure ==
    (Ran /\ Unreachable) =>
        \A e \in TransportErrors, rnd \in RandomDraws :
            LET s1 == EnsureConversations(op.before)
                other == ProcessRagQuery(s1, op.query, op.collection, op.use_conversation,
                                         5, TRUE, e, rnd, now, uuid_count - Len(NewTurns))
            IN  /\ other.ss = session_state
                /\ other.uuids = Len(NewTurns)
                /\ PermissionNote(s1) \o other.ui \o DisplayConversationHistory(other.ss) = ui

\* C20 witness: a query timed out in demo mode with a conversation active.
C20_Witness ==
    /\ Ran /\ TheReply.kind = "Timeout" /\ TheReply.after = API_TIMEOUT
    /\ DemoOn
    /\ WasActive

\* C21: whatever the query and the collection, the mock response has the keys
\* answer, sources, confidence and usage, usage has totalTokens, an integer
\* in [150, 500], and processingTime, and sources holds 2 records for a
\* credit-score query and 1 for any other, each with title, content, score
\* and metadata.
C21_MockShape ==
    op.name = "generate_mock_rag_response" =>
        LET r == op.result
        IN  /\ DOMAIN r = {"answer", "sources", "confidence", "usage"}
            /\ DOMAIN r.usage = {"totalTokens", "processingTime"}
            /\ r.usage.totalTokens \in 150..500
            /\ Len(r.sources) = (IF op.query \in CreditScoreQueries THEN 2 ELSE 1)
            /\ \A i \in DOMAIN r.sources :
                  DOMAIN r.sources[i] = {"title", "content", "score", "metadata"}

\* C21 witness: a mock response was made for a query of the generic category
\* with the draws at their upper ends.
C21_Witness ==
    /\ op.name = "generate_mock_rag_response"
    /\ op.query = QScoreCredit
    /\ op.rnd.totalTokens = 500

\* C22: after logout_user the session holds no conversations, no current
\* conversation, no api_token, no user_data and no demo_mode flag, and it is
\* not authenticated: the next run shows the login form.
C22_LogoutEndsTheSession ==
    op.name = "logout_user" =>
        /\ DOMAIN session_state
              \cap {"conversations", "current_conversation", "api_token", "user_data",
                    "demo_mode"} = {}
        /\ ~Authenticated(session_state)
        /\ ConversationsOf(session_state) = EmptyDict

\* C22 witness: a demo-mode session with a stored turn in its current
\* conversation logged out.
C22_Witness ==
    /\ op.name = "logout_user"
    /\ DemoOn
    /\ WasActive
    /\ MessagesOf(op.before, Active) # <<>>

\* ------------------------------------------------- a misconfigured process
\* The process is started with API_BASE_URL set to a text that is no URL with
\* a scheme: the empty text, or a host without "http://".
BadEnvironments ==
    {[API_BASE_URL |-> <<>>], [API_BASE_URL |-> <<"localhost:3001">>]}

ConfigInit ==
    /\ environ \in BadEnvironments
    /\ session_state = EmptyDict
    /\ now = 0
    /\ uuid_count = 0
    /\ op = Idle
    /\ net = <<>>
    /\ ui = <<>>

ConfigSpec == ConfigInit /\ [][Next]_vars

\* C23: with an invalid backend base URL the API client does not come up: no
\* request is handled, and no query ends in a displayed or stored response.
C23_InvalidBaseUrlIsFatal ==
    ~HasScheme(ApiBaseUrl(environ)) =>
        /\ net = <<>>
        /\ Shown("answer") = {}
        /\ AllStoredTurns = {}

\* C24: with no conversation active, process_rag_query leaves the
\* conversation store as it was on every path: no turn is stored, no
\* conversation is created and no conversation becomes the current one.
C24_NoActiveConversationNoStore ==
    (Ran /\ ~WasActive) =>
        /\ StoreUnchanged
        /\ AllStoredTurns = {}
        /\ "current_conversation" \notin DOMAIN session_state

\* C24 witness: with no conversation active, a query the backend rejected was
\* answered by the demo fallback.
C24_Witness ==
    /\ Ran /\ ~WasActive
    /\ BackendRejected
    /\ DemoOn
    /\ Shown("answer") # {}

\* C25: one run of process_rag_query appends at most one turn, on every path.
C25_AtMostOneTurnPerQuery ==
    Ran =>
        /\ Len(NewTurns) <= 1
        /\ Cardinality(AllStoredTurns)
              <= Cardinality(UNION {{ConversationsOf(op.before)[c].messages[i] :
                                        i \in DOMAIN ConversationsOf(op.before)[c].messages} :
                                     c \in DOMAIN ConversationsOf(op.before)}) + 1

\* C26: "Start New Conversation" keeps every conversation the store held,
\* with the turn list it had.
C26_StartNewKeepsHistory ==
    op.name = "start_new_conversation" =>
        \A c \in DOMAIN ConversationsOf(op.before) :
            /\ c \in DOMAIN ConversationsOf(session_state)
            /\ MessagesOf(session_state, c) = MessagesOf(op.before, c)

\* C27: in every state the page's actions reach, the current conversation,
\* when set, is a key of the conversation map.
C27_CurrentConversationIsStored ==
    HasCurrent(session_state) =>
        /\ "conversations" \in DOMAIN session_state
        /\ session_state.current_conversation \in DOMAIN session_state.conversations

\* C27 witness: the map holds two conversations and the one that is current
\* was cleared after the other was created.
C27_Witness ==
    /\ op.name = "clear_conversation"
    /\ Cardinality(DOMAIN ConversationsOf(session_state)) = 2
    /\ HasCurrent(session_state)

\* The backend itself answered the login request with a success envelope.
BackendAcceptedLogin ==
    /\ net # <<>>
    /\ net[1].reply.kind = "response"
    /\ "json" \in DOMAIN net[1].reply
    /\ IsDict(net[1].reply.json)
    /\ Truthy(net[1].reply.json, "success")
    /\ "data" \in DOMAIN net[1].reply.json
\* The submitted credentials are those of a configured demo account.
IsDemoAccount(email, password) ==
    \E k \in DOMAIN DEMO_CREDENTIALS :
        DEMO_CREDENTIALS[k].email = email /\ DEMO_CREDENTIALS[k].password = password

\* C28: login_user returns True, or stores an api_token or user_data, only if
\* the backend accepted the credentials or they are those of a demo account.
C28_LoginNeedsAcceptedCredentials ==
    op.name = "login_user" =>
        ((op.result \/ "api_token" \in DOMAIN session_state
                    \/ "user_data" \in DOMAIN session_state)
            => (BackendAcceptedLogin \/ IsDemoAccount(op.email, op.password)))

\* C29: after a successful login_user the session demo_mode flag is set
\* exactly when the login was not accepted by the real backend (demo-credential
\* fallback, or the simulated response of an unreachable backend).
C29_DemoModeMarksNonBackendLogin ==
    (op.name = "login_user" /\ op.result) =>
        (Truthy(session_state, "demo_mode") <=> ~BackendAcceptedLogin)

\* The user of session ss holds "applications:view" or the wildcard.
MayViewDashboard(ss) ==
    /\ "user_data" \in DOMAIN ss
    /\ "permissions" \in DOMAIN ss.user_data
    /\ ({"*", "applications:view"} \cap ss.user_data.permissions) # {}
DashboardContent == {i \in DOMAIN ui : ui[i].w \in {"tabs", "metric", "plotly_chart", "dataframe"}}

\* C30 as stated: show_dashboard renders dashboard content only for an
\* authenticated user holding "applications:view" or "*", and for anyone else
\* shows the permission error and renders nothing else.
C30_ContentOrPermissionErrorOnly ==
    op.name = "show_dashboard" =>
        IF Authenticated(op.before) /\ MayViewDashboard(op.before)
        THEN DashboardContent # {}
        ELSE ui = <<PermissionError>>

\* C30, amended: show_dashboard renders dashboard content exactly for an
\* authenticated user holding "applications:view" or "*"; an authenticated user
\* without it gets the page title followed by the permission error and nothing
\* else; an unauthenticated session gets the login form alone.  No request is
\* sent in the last two cases, and the session is never changed.
C30_DashboardGatedByPermission ==
    op.name = "show_dashboard" =>
        /\ session_state = op.before
        /\ IF ~Authenticated(op.before)
           THEN ui = <<[w |-> "login_form"]>> /\ net = <<>>
           ELSE IF ~MayViewDashboard(op.before)
                THEN /\ ui = <<Title(<<"Credit Decision Dashboard">>), PermissionError>>
                     /\ net = <<>>
                ELSE /\ DashboardContent # {}
                     /\ \A i \in DOMAIN ui : ui[i] # PermissionError /\ ui[i].w # "login_form"
C30_Witness ==
    /\ op.name = "show_dashboard"
    /\ Authenticated(op.before)
    /\ ~MayViewDashboard(op.before)
    /\ \E i \in DOMAIN ui : ui[i] = PermissionError

====
